---------------------------- MODULE Spec2Model ----------------------------
(***************************************************************************)
(* A model of sqlalchemy_crud_plus: the filter compiler (parse_filters and *)
(* get_sqlalchemy_filter), the sort normalizer (apply_sorting), the row    *)
(* counter (count) and the by-filter mutations of the CRUD facade          *)
(* (update_model_by_column, delete_model_by_column, delete_model).         *)
(*                                                                         *)
(* Strings that the code splits (filter keys, operator names, column       *)
(* names) are sequences of tokens: the token "_" is one underscore, every  *)
(* other token is a run of characters without an underscore.  The key      *)
(* a__b__gt is << "a", "_", "_", "b", "_", "_", "gt" >>.                    *)
(*                                                                         *)
(* SQL expressions are symbolic terms: a column is [col |-> name], the     *)
(* call builder(column)(args...) is [fn |-> op, on |-> term, args |-> seq],  *)
(* or_(...) is [or_ |-> seq] and and_(...) is [and_ |-> seq].              *)
(***************************************************************************)
EXTENDS Integers, Sequences, FiniteSets, TLC

VARIABLES
    pin,     \* the arguments of the pure call under study (parse_filters / apply_sorting)
    pout,    \* its outcome, Pending before the call has run
    rows,    \* the stored table: row id -> [present, a, del_flag]
    call     \* per caller: the CRUD call it runs and how far it has got

vars == <<pin, pout, rows, call>>

---------------------------------------------------------------------------
(* Bounds of the model *)

MaxKeys == 2          \* keys in one filter specification (small pool)
MaxEntries == 2       \* entries of an `or` group / a `condition` mapping
MaxSort == 2          \* names in a sort_columns list, directions in sort_orders
NumRows == 2          \* rows of the stored table

---------------------------------------------------------------------------
(* Strings as token sequences *)

U == "_"
DU == <<U, U>>

\* '__' in key
HasDelimiter(key) ==
    \E i \in 1..(Len(key) - 1) : key[i] = U /\ key[i + 1] = U

\* the start of the last occurrence of '__' in key (str.rfind)
LastDelimiter(key) ==
    CHOOSE i \in 1..(Len(key) - 1) :
        /\ key[i] = U /\ key[i + 1] = U
        /\ \A j \in (i + 1)..(Len(key) - 1) : ~(key[j] = U /\ key[j + 1] = U)

\* the start of the first occurrence of '__' in key (str.find)
FirstDelimiter(key) ==
    CHOOSE i \in 1..(Len(key) - 1) :
        /\ key[i] = U /\ key[i + 1] = U
        /\ \A j \in 1..(i - 1) : ~(key[j] = U /\ key[j + 1] = U)

\* key.split('__', 1): a split at the first delimiter
SplitFirst(key) ==
    LET i == FirstDelimiter(key)
    IN  [field_name |-> SubSeq(key, 1, i - 1), op |-> SubSeq(key, i + 2, Len(key))]

\* key.rsplit('__', 1)
RSplit(key) ==
    LET i == LastDelimiter(key)
    IN  [field_name |-> SubSeq(key, 1, i - 1), op |-> SubSeq(key, i + 2, Len(key))]

---------------------------------------------------------------------------
(* The operator table *)

ARITHMETIC ==
    { <<"add">>, <<"radd">>, <<"sub">>, <<"rsub">>, <<"mul">>, <<"rmul">>,
      <<"truediv">>, <<"rtruediv">>, <<"floordiv">>, <<"rfloordiv">>,
      <<"mod">>, <<"rmod">> }

SEQUENCE_OPS == { <<"in">>, <<"not", U, "in">>, <<"between">> }

SUPPORTED_FILTERS ==
    { <<"gt">>, <<"lt">>, <<"ge">>, <<"le">>, <<"eq">>, <<"ne">>,
      <<"between">>, <<"in">>, <<"not", U, "in">>,
      <<"is">>, <<"is", U, "not">>,
      <<"is", U, "distinct", U, "from">>, <<"is", U, "not", U, "distinct", U, "from">>,
      <<"like">>, <<"not", U, "like">>, <<"ilike">>, <<"not", U, "ilike">>,
      <<"startswith">>, <<"endswith">>, <<"contains">>, <<"match">>, <<"concat">> }
    \cup ARITHMETIC

\* Values a caller passes: a scalar, a list/tuple/set, a str, a dict (ordered
\* key/value entries).
Scalar(n) == [t |-> "scalar", s |-> n]
Str(w) == [t |-> "str", w |-> w]
List(l) == [t |-> "list", l |-> l]
Tuple(l) == [t |-> "tuple", l |-> l]
SetOf(l) == [t |-> "set", l |-> l]
Dict(d) == [t |-> "dict", d |-> d]
Entry(k, v) == [k |-> k, v |-> v]

\* isinstance(value, (tuple, list, set))
IsSequence(value) == value.t \in {"tuple", "list", "set"}
IsDict(value) == value.t = "dict"

DictKeys(value) == {value.d[i].k : i \in 1..Len(value.d)}
DictGet(value, k) == value.d[CHOOSE i \in 1..Len(value.d) : value.d[i].k = k].v

KeyValue == <<"value">>
KeyCondition == <<"condition">>

\* Exceptions (SelectOperatorError is raised with two different messages)
NoErr == "none"
InvalidOperatorValueError == "SelectOperatorError: value must be tuple, list, or set"
NestedArithmeticError == "SelectOperatorError: nested arithmetic operations are not allowed"
ModelColumnError == "ModelColumnError"
TypeError == "TypeError"
AttributeError == "AttributeError"
ColumnSortError == "ColumnSortError"
ValueError == "ValueError: sort orders provided without corresponding sort columns"
MultipleResultsError == "MultipleResultsError"

None == [none |-> TRUE]
Builder(op) == [builder |-> op]

\* get_sqlalchemy_filter without the value-shape check
get_sqlalchemy_filter_no_shape_check(operator, value, allow_arithmetic) ==
    IF operator \in ARITHMETIC /\ ~allow_arithmetic
    THEN [err |-> NestedArithmeticError, builder |-> None, warned |-> FALSE]
    ELSE IF operator \in SUPPORTED_FILTERS
    THEN [err |-> NoErr, builder |-> Builder(operator), warned |-> FALSE]
    ELSE [err |-> NoErr, builder |-> None, warned |-> TRUE]

\* get_sqlalchemy_filter(operator, value, allow_arithmetic): the builder of the
\* operator, None with a warning when the table has none, or an exception.
get_sqlalchemy_filter(operator, value, allow_arithmetic) ==
    IF operator \in SEQUENCE_OPS /\ ~IsSequence(value)
    THEN [err |-> InvalidOperatorValueError, builder |-> None, warned |-> FALSE]
    ELSE IF operator \in ARITHMETIC /\ ~allow_arithmetic
    THEN [err |-> NestedArithmeticError, builder |-> None, warned |-> FALSE]
    ELSE IF operator \in SUPPORTED_FILTERS
    THEN [err |-> NoErr, builder |-> Builder(operator), warned |-> FALSE]
    ELSE [err |-> NoErr, builder |-> None, warned |-> TRUE]

---------------------------------------------------------------------------
(* The entity and the column resolver *)

ColId == <<"id">>
ColA == <<"a">>
ColAB == <<"a", U, U, "b">>
ColDelFlag == <<"del", U, "flag">>

\* the attributes of the entity type
ModelColumns == {ColId, ColA, ColAB, ColDelFlag}

Column(name) == [col |-> name]

\* get_column(model, field_name)
get_column(field_name) ==
    IF field_name \in ModelColumns
    THEN [err |-> NoErr, column |-> Column(field_name)]
    ELSE [err |-> ModelColumnError, column |-> None]

\* The call builder(on)(args...).  Every builder takes one operand, except
\* between(cleft, cright, symmetric=False); calling None raises TypeError.
Raised(e) == [raised |-> e]
Apply(builder, on, args) ==
    IF builder = None THEN Raised(TypeError)
    ELSE IF builder.builder = <<"between">>
    THEN IF Len(args) \in {2, 3}
         THEN [fn |-> builder.builder, on |-> on, args |-> args]
         ELSE Raised(TypeError)
    ELSE IF Len(args) = 1
         THEN [fn |-> builder.builder, on |-> on, args |-> args]
         ELSE Raised(TypeError)

IsRaised(x) == "raised" \in DOMAIN x

Or_(clauses) == [or_ |-> clauses]
And_(clauses) == [and_ |-> clauses]

---------------------------------------------------------------------------
(* The filter compiler *)

\* The running state of one parse_filters call: the predicates appended so
\* far, the exception raised (NoErr while none), the operators warned about,
\* and the get_sqlalchemy_filter calls made, each with the place it was made
\* from ("key": line 89, "or": line 95, "condition": line 103).
NewParse == [filters |-> <<>>, err |-> NoErr, warns |-> <<>>, calls |-> <<>>]

Raise(acc, e) == [acc EXCEPT !.err = e]

\* acc after one get_sqlalchemy_filter call made from `site`
Called(acc, operator, value, allow_arithmetic, site) ==
    LET r == get_sqlalchemy_filter(operator, value, allow_arithmetic)
    IN  [acc EXCEPT
            !.calls = Append(@, [op |-> operator, seq |-> IsSequence(value),
                                 allow_arithmetic |-> allow_arithmetic, site |-> site]),
            !.warns = IF r.warned THEN Append(@, operator) ELSE @,
            !.err = r.err]

\* the default of get_sqlalchemy_filter's allow_arithmetic parameter, which the
\* `or` comprehension relies on
OrAllowArithmetic == TRUE

\* lines 92-96: the comprehension over value.items() of an `or` group, from
\* entry i on; `out` holds the or_filters built so far
RECURSIVE OrFilters(_, _, _, _, _)
OrFilters(acc, column, items, i, out) ==
    IF i > Len(items) THEN [acc |-> acc, out |-> out]
    ELSE LET or_op == items[i].k
             or_value == items[i].v
             a1 == Called(acc, or_op, or_value, OrAllowArithmetic, "or")
             sqlalchemy_filter ==
                 get_sqlalchemy_filter(or_op, or_value, OrAllowArithmetic).builder
             e == Apply(sqlalchemy_filter, column, <<or_value>>)
         IN  IF a1.err # NoErr THEN [acc |-> a1, out |-> out]
             ELSE IF sqlalchemy_filter = None
             THEN OrFilters(a1, column, items, i + 1, out)
             ELSE IF IsRaised(e) THEN [acc |-> Raise(a1, e.raised), out |-> out]
             ELSE OrFilters(a1, column, items, i + 1, Append(out, e))

\* lines 102-108: the loop over condition.items(), from entry i on
RECURSIVE ConditionFilters(_, _, _, _, _, _, _)
ConditionFilters(acc, column, sqlalchemy_filter, advanced_value, items, i, out) ==
    IF i > Len(items) THEN [acc |-> acc, out |-> out]
    ELSE LET cond_op == items[i].k
             cond_value == items[i].v
             a1 == Called(acc, cond_op, cond_value, FALSE, "condition")
             cond_filter == get_sqlalchemy_filter(cond_op, cond_value, FALSE).builder
             inner == Apply(sqlalchemy_filter, column, <<advanced_value>>)
             e == IF IsRaised(inner) THEN inner
                  ELSE IF cond_op # <<"between">>
                       THEN Apply(cond_filter, inner, <<cond_value>>)
                       ELSE Apply(cond_filter, inner, cond_value.l)
         IN  IF a1.err # NoErr THEN [acc |-> a1, out |-> out]
             ELSE IF IsRaised(e) THEN [acc |-> Raise(a1, e.raised), out |-> out]
             ELSE ConditionFilters(a1, column, sqlalchemy_filter, advanced_value,
                                   items, i + 1, Append(out, e))

AppendFilter(acc, e) == [acc EXCEPT !.filters = Append(@, e)]

\* lines 98-109: the conditional-value branch
ConditionalValue(acc, column, sqlalchemy_filter, value) ==
    LET condition == DictGet(value, KeyCondition)
    IN  IF ~IsDict(condition) THEN Raise(acc, AttributeError)
        ELSE LET r == ConditionFilters(acc, column, sqlalchemy_filter,
                                       DictGet(value, KeyValue), condition.d, 1, <<>>)
             IN  IF r.acc.err # NoErr THEN r.acc
                 ELSE AppendFilter(r.acc, And_(r.out))

\* lines 91-97: the `or` branch aborting on an entry without a builder
OrGroupStrict(acc, column, value) ==
    IF ~IsDict(value) THEN Raise(acc, AttributeError)
    ELSE LET r == OrFilters(acc, column, value.d, 1, <<>>)
         IN  IF r.acc.err # NoErr THEN r.acc
             ELSE IF r.acc.warns # acc.warns THEN Raise(r.acc, TypeError)
             ELSE AppendFilter(r.acc, Or_(r.out))

\* lines 91-97: the `or` branch
OrGroup(acc, column, value) ==
    IF ~IsDict(value) THEN Raise(acc, AttributeError)
    ELSE LET r == OrFilters(acc, column, value.d, 1, <<>>)
         IN  IF r.acc.err # NoErr THEN r.acc
             ELSE AppendFilter(r.acc, Or_(r.out))

\* lines 110-113: the plain branch
Plain(acc, column, sqlalchemy_filter, op, value) ==
    IF sqlalchemy_filter = None THEN acc
    ELSE LET e == IF op # <<"between">>
                  THEN Apply(sqlalchemy_filter, column, <<value>>)
                  ELSE Apply(sqlalchemy_filter, column, value.l)
         IN  IF IsRaised(e) THEN Raise(acc, e.raised) ELSE AppendFilter(acc, e)

\* how line 87 splits a key that holds a delimiter
SplitKey(key) == RSplit(key)

\* lines 86-116: one iteration of the loop over kwargs.items()
ParseKey(acc, key, value) ==
    IF HasDelimiter(key)
    THEN LET field_name == SplitKey(key).field_name
             op == SplitKey(key).op
             c == get_column(field_name)
             a1 == Called(acc, op, value, TRUE, "key")
             sqlalchemy_filter == get_sqlalchemy_filter(op, value, TRUE).builder
         IN  IF c.err # NoErr THEN Raise(acc, c.err)
             ELSE IF a1.err # NoErr THEN a1
             ELSE IF op = <<"or">> THEN OrGroup(a1, c.column, value)
             ELSE IF IsDict(value) /\ {KeyValue, KeyCondition} \subseteq DictKeys(value)
             THEN ConditionalValue(a1, c.column, sqlalchemy_filter, value)
             ELSE Plain(a1, c.column, sqlalchemy_filter, op, value)
    ELSE LET c == get_column(key)
         IN  IF c.err # NoErr THEN Raise(acc, c.err)
             ELSE AppendFilter(acc, Apply(Builder(<<"eq">>), c.column, <<value>>))

RECURSIVE ParseFrom(_, _, _)
ParseFrom(acc, kwargs, i) ==
    IF i > Len(kwargs) \/ acc.err # NoErr THEN acc
    ELSE ParseFrom(ParseKey(acc, kwargs[i].k, kwargs[i].v), kwargs, i + 1)

\* parse_filters(model, **kwargs); kwargs is the ordered sequence of its items.
\* A call that raises returns no predicates.
parse_filters(kwargs) ==
    LET r == ParseFrom(NewParse, kwargs, 1)
    IN  IF r.err # NoErr THEN [r EXCEPT !.filters = <<>>] ELSE r

---------------------------------------------------------------------------
(* The filter specifications the compiler is run on *)

OpOr == <<"or">>
OpUnknown == <<"frobnicate">>
NoColumn == <<"nocol">>

KeyOf(field_name, op) == field_name \o DU \o op

\* operator names met inside an `or` group or a `condition` mapping
InnerOps == { <<"gt">>, <<"lt">>, <<"in">>, <<"between">>, <<"add">>, OpUnknown }
InnerValues == { Scalar(5), List(<<1, 2>>) }
InnerEntries == { Entry(k, v) : k \in InnerOps, v \in InnerValues }

\* the sequences of at most n entries of S with pairwise different keys
DistinctKeys(q) == \A i, j \in 1..Len(q) : i < j => q[i].k # q[j].k

RECURSIVE Items(_, _)
Items(S, n) ==
    IF n = 0 THEN { <<>> }
    ELSE LET shorter == Items(S, n - 1)
             longer == { Append(s, e) : s \in shorter, e \in S }
         IN  shorter \cup { q \in longer : DistinctKeys(q) }

Mappings == { Dict(d) : d \in Items(InnerEntries, MaxEntries) }

ConditionalValues ==
    { Dict(<<Entry(KeyValue, Scalar(2)), Entry(KeyCondition, m)>>) : m \in Mappings }
    \cup { Dict(<<Entry(KeyCondition, Dict(<<Entry(<<"gt">>, Scalar(10))>>)),
                  Entry(KeyValue, Scalar(2))>>),
           Dict(<<Entry(KeyValue, Scalar(2)), Entry(KeyCondition, Scalar(10))>>),
           Dict(<<Entry(KeyValue, Scalar(2))>>) }

Values ==
    { Scalar(5), Str(<<"x">>), List(<<1, 2>>), Tuple(<<1, 2, 3>>), SetOf(<<1>>), List(<<>>) }
    \cup Mappings \cup ConditionalValues

\* every operator on column a, a few on the other fields, and bare names
Keys ==
    { KeyOf(ColA, op) : op \in SUPPORTED_FILTERS \cup {OpOr, OpUnknown} }
    \cup { KeyOf(f, op) : f \in {ColAB, ColDelFlag, NoColumn, <<"a", U>>},
                          op \in { <<"gt">>, <<"in">>, <<"mul">>, OpOr, OpUnknown } }
    \cup { ColA, ColAB, ColDelFlag, NoColumn }

SmallKeys ==
    { ColA, NoColumn, KeyOf(ColAB, <<"gt">>), KeyOf(ColA, <<"in">>),
      KeyOf(ColA, <<"between">>), KeyOf(ColA, OpUnknown), KeyOf(ColA, OpOr),
      KeyOf(ColA, <<"mul">>) }

SmallValues ==
    { Scalar(5), List(<<1, 2>>),
      Dict(<<Entry(<<"gt">>, Scalar(5)), Entry(<<"lt">>, Scalar(1))>>),
      Dict(<<Entry(KeyValue, Scalar(2)),
             Entry(KeyCondition, Dict(<<Entry(<<"gt">>, Scalar(10))>>))>>) }

\* one key with any value, or up to MaxKeys keys of the small pool
FilterSpecs ==
    { <<Entry(k, v)>> : k \in Keys, v \in Values }
    \cup Items({ Entry(k, v) : k \in SmallKeys, v \in SmallValues }, MaxKeys)

\* the two callers of the facade
Callers == {1, 2}

Pending == [pending |-> TRUE]
IsPending(x) == "pending" \in DOMAIN x

\* the stored table and the callers, at rest
NoRows == [i \in 1..NumRows |-> [present |-> FALSE, a |-> 0, del_flag |-> FALSE]]
Idle == [pc |-> "idle"]
NoCalls == [c \in Callers |-> Idle]

InitFilters ==
    /\ pin \in { [fn |-> "parse_filters", kwargs |-> kw] : kw \in FilterSpecs }
    /\ pout = Pending
    /\ rows = NoRows
    /\ call = NoCalls

\* the call parse_filters(model, **kwargs)
ParseFilters ==
    /\ pin.fn = "parse_filters"
    /\ IsPending(pout)
    /\ pout' = parse_filters(pin.kwargs)
    /\ UNCHANGED <<pin, rows, call>>

NextFilters == ParseFilters

SpecFilters == InitFilters /\ [][NextFilters]_vars

---------------------------------------------------------------------------
(* The sort normalizer *)

\* a value used as a condition: None, '' and [] are false
Truthy(x) ==
    IF x = None THEN FALSE
    ELSE IF x.t = "str" THEN x.w # <<>>
    ELSE x.l # <<>>

\* [x] if isinstance(x, str) else x
Promote(x) == IF x.t = "str" THEN <<x.w>> ELSE x.l

Asc == <<"asc">>
Desc == <<"desc">>

\* lines 141-143: the loop over zip(sort_columns, validated_sort_orders), from
\* pair i on; `resolved` lists the names handed to get_column
RECURSIVE OrderBy(_, _, _, _, _)
OrderBy(stmt, columns, orders, i, resolved) ==
    IF i > Len(columns) \/ i > Len(orders)
    THEN [err |-> NoErr, stmt |-> stmt, resolved |-> resolved]
    ELSE LET c == get_column(columns[i])
             clause == [dir |-> IF orders[i] = Asc THEN "asc" ELSE "desc",
                        column |-> c.column]
         IN  IF c.err # NoErr
             THEN [err |-> c.err, stmt |-> stmt, resolved |-> Append(resolved, columns[i])]
             ELSE OrderBy([stmt EXCEPT !.order_by = Append(@, clause)], columns, orders,
                          i + 1, Append(resolved, columns[i]))

\* apply_sorting without the comparison of the two lengths (zip stops at the
\* shorter list)
apply_sorting_no_length_check(stmt, sort_columns, sort_orders) ==
    IF Truthy(sort_orders) /\ ~Truthy(sort_columns)
    THEN [err |-> ValueError, stmt |-> stmt, resolved |-> <<>>]
    ELSE IF ~Truthy(sort_columns)
    THEN [err |-> NoErr, stmt |-> stmt, resolved |-> <<>>]
    ELSE LET columns == Promote(sort_columns)
             orders == IF Truthy(sort_orders) THEN Promote(sort_orders)
                       ELSE [i \in 1..Len(columns) |-> Asc]
         IN  OrderBy(stmt, columns, orders, 1, <<>>)

\* apply_sorting(model, stmt, sort_columns, sort_orders): the exception raised,
\* the statement as it stands when the call ends, the names resolved
apply_sorting(stmt, sort_columns, sort_orders) ==
    IF Truthy(sort_orders) /\ ~Truthy(sort_columns)
    THEN [err |-> ValueError, stmt |-> stmt, resolved |-> <<>>]
    ELSE IF ~Truthy(sort_columns)
    THEN [err |-> NoErr, stmt |-> stmt, resolved |-> <<>>]
    ELSE LET columns == Promote(sort_columns)
             orders == IF Truthy(sort_orders) THEN Promote(sort_orders)
                       ELSE [i \in 1..Len(columns) |-> Asc]
         IN  IF Truthy(sort_orders) /\ Len(columns) # Len(orders)
             THEN [err |-> ColumnSortError, stmt |-> stmt, resolved |-> <<>>]
             ELSE OrderBy(stmt, columns, orders, 1, <<>>)

\* the sequences of at most n elements of S
RECURSIVE SeqsUpTo(_, _)
SeqsUpTo(S, n) ==
    IF n = 0 THEN { <<>> }
    ELSE LET shorter == SeqsUpTo(S, n - 1)
         IN  shorter \cup { Append(q, x) : q \in shorter, x \in S }

SortNames == { ColA, ColId, NoColumn }
SortDirections == { Asc, Desc, <<"up">> }

SortColumns ==
    { None, Str(<<>>) } \cup { Str(n) : n \in SortNames }
    \cup { List(l) : l \in SeqsUpTo(SortNames, MaxSort) }

SortOrders ==
    { None, Str(<<>>) } \cup { Str(d) : d \in SortDirections }
    \cup { List(l) : l \in SeqsUpTo(SortDirections, MaxSort) }

\* select(model).where(...), and a statement that is ordered already
Statements ==
    { [order_by |-> <<>>], [order_by |-> <<[dir |-> "desc", column |-> Column(ColId)]>>] }

InitSort ==
    /\ pin \in { [fn |-> "apply_sorting", stmt |-> st, sort_columns |-> sc, sort_orders |-> so] :
                    st \in Statements, sc \in SortColumns, so \in SortOrders }
    /\ pout = Pending
    /\ rows = NoRows
    /\ call = NoCalls

\* the call apply_sorting(model, stmt, sort_columns, sort_orders)
ApplySorting ==
    /\ pin.fn = "apply_sorting"
    /\ IsPending(pout)
    /\ pout' = apply_sorting(pin.stmt, pin.sort_columns, pin.sort_orders)
    /\ UNCHANGED <<pin, rows, call>>

NextSort == ApplySorting

SpecSort == InitSort /\ [][NextSort]_vars

---------------------------------------------------------------------------
(* The storage collaborator: one table, every statement executed atomically  *)
(* on the rows as they are stored when it runs (no isolation between the     *)
(* callers' sessions).                                                       *)

RowIds == 1..NumRows
AValues == {1, 2}

\* the value of a column in row i of table tbl, as a number
ColumnValue(tbl, i, name) ==
    IF name = ColId THEN i
    ELSE IF name = ColA THEN tbl[i].a
    ELSE IF tbl[i].del_flag THEN 1 ELSE 0

\* the truth of a compiled predicate in row i
RECURSIVE Holds(_, _, _)
Holds(e, tbl, i) ==
    IF "or_" \in DOMAIN e THEN \E j \in 1..Len(e.or_) : Holds(e.or_[j], tbl, i)
    ELSE IF "and_" \in DOMAIN e THEN \A j \in 1..Len(e.and_) : Holds(e.and_[j], tbl, i)
    ELSE LET x == ColumnValue(tbl, i, e.on.col)
         IN  CASE e.fn = <<"eq">> -> x = e.args[1].s
               [] e.fn = <<"ne">> -> x # e.args[1].s
               [] e.fn = <<"gt">> -> x > e.args[1].s
               [] e.fn = <<"ge">> -> x >= e.args[1].s
               [] e.fn = <<"lt">> -> x < e.args[1].s
               [] e.fn = <<"le">> -> x <= e.args[1].s
               [] e.fn = <<"in">> -> \E j \in 1..Len(e.args[1].l) : x = e.args[1].l[j]
               [] e.fn = <<"between">> -> e.args[1] <= x /\ x <= e.args[2]

\* the rows a statement with .where(*filters) addresses: all of them when
\* filters is empty
Matching(filters, tbl) ==
    { i \in RowIds : tbl[i].present /\ \A j \in 1..Len(filters) : Holds(filters[j], tbl, i) }

\* count(session, model, filters)
count(filters, tbl) == Cardinality(Matching(filters, tbl))

\* sa_update(model).where(...).values(**{name: value}) on the rows `ids`
UpdateRows(tbl, ids, name, value) ==
    [i \in RowIds |->
        IF i \notin ids THEN tbl[i]
        ELSE IF name = ColA THEN [tbl[i] EXCEPT !.a = value]
        ELSE [tbl[i] EXCEPT !.del_flag = value]]

\* sa_delete(model).where(...) on the rows `ids`
DeleteRows(tbl, ids) ==
    [i \in RowIds |-> IF i \in ids THEN [present |-> FALSE, a |-> 0, del_flag |-> FALSE]
                      ELSE tbl[i]]

\* result.rowcount as the driver may report it for a statement that matched
\* `ids` and turned tbl into after: the rows matched, the rows changed, or -1
Rowcounts(tbl, after, ids) ==
    { Cardinality(ids), Cardinality({ i \in ids : tbl[i] # after[i] }), -1 }

---------------------------------------------------------------------------
(* The CRUD facade *)

\* the filter specifications callers pass: a = 1, the flag not set, an unknown
\* operator (no predicate: every row), a > 1, and one that does not compile
CallerFilters ==
    { <<Entry(ColA, Scalar(1))>>,
      <<Entry(ColDelFlag, Scalar(0))>>,
      <<Entry(KeyOf(ColA, OpUnknown), Scalar(1))>>,
      <<Entry(KeyOf(ColA, <<"gt">>), Scalar(1))>>,
      <<Entry(KeyOf(ColA, <<"in">>), Scalar(5))>> }

\* the guard of the by-filter mutations failing from three rows on
GuardFromThree(allow_multiple, total_count) == ~allow_multiple /\ total_count > 2

\* if not allow_multiple and total_count > 1: raise MultipleResultsError
Guard(allow_multiple, total_count) == ~allow_multiple /\ total_count > 1

\* every operation returning result.rowcount
ReturnRowcount(op, total_count, rowcount) == rowcount

\* the value an operation returns
ReturnValue(op, total_count, rowcount) ==
    IF op = "delete_model_by_column" THEN total_count ELSE rowcount

\* delete_model_by_column always issuing the DELETE
AlwaysDelete(c, tbl, ids) == DeleteRows(tbl, ids)

\* the table after the statement call c holds is executed on the rows `ids`
Executed(c, tbl, ids) ==
    IF c.op = "update_model_by_column" THEN UpdateRows(tbl, ids, ColA, c.obj)
    ELSE IF c.op = "delete_model_by_column" /\ c.logical_deletion
    THEN UpdateRows(tbl, ids, c.deleted_flag_column, TRUE)
    ELSE DeleteRows(tbl, ids)

\* the rows the statement of call c addresses in tbl
Addressed(c, tbl) ==
    IF c.op = "delete_model" THEN { i \in RowIds : tbl[i].present /\ i = c.pk }
    ELSE Matching(c.filters, tbl)

\* a call as it starts: its arguments, the compiled filters and nothing done
\* yet.  rows0 is the table when the call started and rows_end the table when
\* it ended; interleaved tells that another caller changed the table in
\* between, raced that one did so between this call's count and its statement.
NewCall(op, allow_multiple, logical_deletion, commit, kwargs, obj, pk, parsed) ==
    [ pc |-> IF parsed.err # NoErr THEN "done"
             ELSE IF op = "delete_model" THEN "execute" ELSE "count",
      op |-> op, allow_multiple |-> allow_multiple,
      logical_deletion |-> logical_deletion, deleted_flag_column |-> ColDelFlag,
      commit |-> commit, kwargs |-> kwargs, obj |-> obj, pk |-> pk,
      filters |-> parsed.filters, err |-> parsed.err,
      total_count |-> 0, rowcount |-> 0, mutated |-> 0, ret |-> 0,
      log |-> <<>>, rows0 |-> rows, rows_end |-> rows,
      interleaved |-> FALSE, raced |-> FALSE ]

\* update_model_by_column up to its first suspension (line 112)
CallUpdateModelByColumn(c) ==
    /\ call[c].pc = "idle"
    /\ \E kwargs \in CallerFilters, obj \in AValues, allow_multiple, commit \in BOOLEAN :
           call' = [call EXCEPT ![c] =
                       NewCall("update_model_by_column", allow_multiple, FALSE, commit,
                               kwargs, obj, 0, parse_filters(kwargs))]
    /\ UNCHANGED <<pin, pout, rows>>

\* delete_model_by_column up to its first suspension (line 143)
CallDeleteModelByColumn(c) ==
    /\ call[c].pc = "idle"
    /\ \E kwargs \in CallerFilters, allow_multiple, logical_deletion, commit \in BOOLEAN :
           call' = [call EXCEPT ![c] =
                       NewCall("delete_model_by_column", allow_multiple, logical_deletion,
                               commit, kwargs, 0, 0, parse_filters(kwargs))]
    /\ UNCHANGED <<pin, pout, rows>>

\* delete_model up to its first suspension (line 126)
CallDeleteModel(c) ==
    /\ call[c].pc = "idle"
    /\ \E pk \in RowIds, commit \in BOOLEAN :
           call' = [call EXCEPT ![c] =
                       NewCall("delete_model", FALSE, FALSE, commit, <<>>, 0, pk, NewParse)]
    /\ UNCHANGED <<pin, pout, rows>>

\* await count(...) and the guard (lines 113-115, 144-146)
Count(c) ==
    /\ call[c].pc = "count"
    /\ LET total_count == count(call[c].filters, rows)
           failed == Guard(call[c].allow_multiple, total_count)
       IN  call' = [call EXCEPT ![c] =
                       [@ EXCEPT !.total_count = total_count,
                                 !.log = Append(@, "count"),
                                 !.rows_end = rows,
                                 !.err = IF failed THEN MultipleResultsError ELSE NoErr,
                                 !.pc = IF failed THEN "done" ELSE "execute"]]
    /\ UNCHANGED <<pin, pout, rows>>

\* a helper that awaits the commit whatever the flag says
commit_always(commit) == "commit"

\* _commit_if_needed (lines 34-37): session.commit() is awaited only when the
\* flag is true; otherwise the call goes on to its return
commit_if_needed(commit) == IF commit THEN "commit" ELSE "done"

\* await session.execute(stmt) (lines 118, 127, 152), then the return unless
\* a commit is awaited
Execute(c) ==
    /\ call[c].pc = "execute"
    /\ LET ids == Addressed(call[c], rows)
           after == Executed(call[c], rows, ids)
       IN  /\ rows' = after
           /\ \E rowcount \in Rowcounts(rows, after, ids) :
                  call' = [d \in Callers |->
                      IF d = c
                      THEN [call[c] EXCEPT
                               !.rowcount = rowcount,
                               !.mutated = Cardinality(ids),
                               !.log = Append(@, "execute"),
                               !.rows_end = after,
                               !.ret = ReturnValue(call[c].op, call[c].total_count, rowcount),
                               !.pc = commit_if_needed(call[c].commit)]
                      ELSE IF call[d].pc \in {"count", "execute", "commit"} /\ after # rows
                      THEN [call[d] EXCEPT !.interleaved = TRUE,
                                           !.raced = @ \/ call[d].pc = "execute"]
                      ELSE call[d]]
    /\ UNCHANGED <<pin, pout>>

\* await session.commit() (lines 34-37), then the return
Commit(c) ==
    /\ call[c].pc = "commit"
    /\ call' = [call EXCEPT ![c] = [@ EXCEPT !.log = Append(@, "commit"),
                                             !.rows_end = rows,
                                             !.pc = "done"]]
    /\ UNCHANGED <<pin, pout, rows>>

Init ==
    /\ pin = [fn |-> "none"]
    /\ pout = Pending
    /\ rows \in [RowIds -> { [present |-> TRUE, a |-> v, del_flag |-> FALSE] : v \in AValues }]
    /\ call = NoCalls

Next ==
    \E c \in Callers :
        \/ CallUpdateModelByColumn(c)
        \/ CallDeleteModelByColumn(c)
        \/ CallDeleteModel(c)
        \/ Count(c)
        \/ Execute(c)
        \/ Commit(c)

Spec == Init /\ [][Next]_vars

---------------------------------------------------------------------------
(* Claims about the filter compiler, checked under SpecFilters *)

Parsed == pin.fn = "parse_filters" /\ ~IsPending(pout)

Prefix(kwargs, n) == SubSeq(kwargs, 1, n)
Without(kwargs, i) == SubSeq(kwargs, 1, i - 1) \o SubSeq(kwargs, i + 1, Len(kwargs))

\* the outcome of compiling the first n keys of the specification compiled
Upto(n) == IF n = Len(pin.kwargs) THEN pout ELSE parse_filters(Prefix(pin.kwargs, n))

\* key is f__op with f a column of the entity and op an operator name of ops
IsFieldOp(key, ops) == \E f \in ModelColumns, op \in ops : key = KeyOf(f, op)
FieldOf(key, ops) == CHOOSE f \in ModelColumns : \E op \in ops : key = KeyOf(f, op)
OpOf(key, ops) == CHOOSE op \in ops : \E f \in ModelColumns : key = KeyOf(f, op)

\* key is f__op with f a column and op neither `or` nor in the operator table
IsUnknownOpKey(key) ==
    /\ HasDelimiter(key)
    /\ RSplit(key).field_name \in ModelColumns
    /\ RSplit(key).op \notin SUPPORTED_FILTERS \cup {OpOr}

\* a scalar, a sequence, or a mapping; one that holds `value` and `condition`
\* has a condition with an entry and compiles under the known operator mul
WellFormed(value) ==
    (IsDict(value) /\ {KeyValue, KeyCondition} \subseteq DictKeys(value)) =>
        /\ IsDict(DictGet(value, KeyCondition))
        /\ DictGet(value, KeyCondition).d # <<>>
        /\ parse_filters(<<Entry(KeyOf(ColA, <<"mul">>), value)>>).err = NoErr

\* C2: a key f__op with f a column and op unknown, whatever its value (a
\* conditional-value mapping included), is compiled with a warning for op and
\* without failing, to the predicates the specification without the key yields.
C2_UnknownOperatorContributesNothing ==
    Parsed =>
        \A i \in 1..Len(pin.kwargs) :
            LET rest == parse_filters(Without(pin.kwargs, i))
            IN  (/\ IsUnknownOpKey(pin.kwargs[i].k)
                 /\ WellFormed(pin.kwargs[i].v)
                 /\ rest.err = NoErr) =>
                    /\ pout.err = NoErr
                    /\ pout.filters = rest.filters
                    /\ \E w \in 1..Len(pout.warns) :
                           pout.warns[w] = RSplit(pin.kwargs[i].k).op

\* C3: an arithmetic operator looked up anywhere but as the top-level operator
\* of a key (as an entry of a `condition` mapping or of an `or` group) makes
\* the compilation fail with NestedArithmeticError and return no predicates.
C3_NestedArithmeticRejected ==
    Parsed =>
        \A j \in 1..Len(pout.calls) :
            (pout.calls[j].site \in {"or", "condition"} /\ pout.calls[j].op \in ARITHMETIC)
                => (pout.err = NestedArithmeticError /\ pout.filters = <<>>)

\* key i of the specification is f__or with f a column and a mapping as value,
\* and the keys before it compile
IsOrKey(i) ==
    /\ IsFieldOp(pin.kwargs[i].k, {OpOr})
    /\ IsDict(pin.kwargs[i].v)
    /\ Upto(i - 1).err = NoErr

KnownEntries(value) == SelectSeq(value.d, LAMBDA e : e.k \in SUPPORTED_FILTERS)

\* or_ of builder(op)(column f, value) over the entries with a known operator
Disjunction(f, value) ==
    LET known == KnownEntries(value)
    IN  Or_([j \in 1..Len(known) |->
                [fn |-> known[j].k, on |-> Column(f), args |-> <<known[j].v>>]])

\* an entry the `or` comprehension fails on: a sequence operator with a value
\* that is not a sequence, or between (its builder needs two operands)
FailingEntry(e) ==
    \/ (e.k \in SEQUENCE_OPS /\ ~IsSequence(e.v))
    \/ e.k = <<"between">>

C5_SequenceOperatorsNeedSequence ==
    Parsed =>
        /\ \A j \in 1..Len(pout.calls) :
               (pout.calls[j].op \in SEQUENCE_OPS /\ ~pout.calls[j].seq)
                   => (pout.err = InvalidOperatorValueError /\ pout.filters = <<>>)
        /\ pout.err = InvalidOperatorValueError =>
               /\ pout.calls # <<>>
               /\ pout.calls[Len(pout.calls)].op \in SEQUENCE_OPS
               /\ ~pout.calls[Len(pout.calls)].seq

\* C5 witness: `in` with a scalar inside a condition mapping, after an entry
\* that compiled
C5_Witness ==
    /\ Parsed
    /\ pout.err = InvalidOperatorValueError
    /\ Len(pout.calls) = 3
    /\ pout.calls[3].site = "condition"
    /\ pout.calls[3].op = <<"in">>

\* operators a plain key may carry: supported, not arithmetic
PlainOps == SUPPORTED_FILTERS \ ARITHMETIC

\* the value fits the operator: a sequence for in/not_in, two bounds for between
Compatible(op, value) ==
    /\ ~IsDict(value)
    /\ op \in SEQUENCE_OPS => IsSequence(value)
    /\ op = <<"between">> => Len(value.l) = 2

IsBareKey(e) == ~HasDelimiter(e.k) /\ e.k \in ModelColumns
IsPlainKey(e) == IsFieldOp(e.k, PlainOps) /\ Compatible(OpOf(e.k, PlainOps), e.v)

\* the predicate a bare or plain key stands for
Predicate(e) ==
    IF IsBareKey(e)
    THEN [fn |-> <<"eq">>, on |-> Column(e.k), args |-> <<e.v>>]
    ELSE [fn |-> OpOf(e.k, PlainOps), on |-> Column(FieldOf(e.k, PlainOps)),
          args |-> IF OpOf(e.k, PlainOps) = <<"between">> THEN e.v.l ELSE <<e.v>>]

OnlyBareAndPlainKeys ==
    \A i \in 1..Len(pin.kwargs) : IsBareKey(pin.kwargs[i]) \/ IsPlainKey(pin.kwargs[i])

\* C6: a specification of bare keys and of f__op keys (op supported, not
\* arithmetic, not `or`; a compatible value that is no mapping; f a column, which
\* may itself hold `__`) compiles to one predicate per key, in key order: the
\* equality of the column and the value for a bare key, op's builder applied to
\* column f and the value (two bounds unpacked for between) otherwise.
C6_OnePredicatePerKey ==
    (Parsed /\ OnlyBareAndPlainKeys) =>
        /\ pout.err = NoErr
        /\ Len(pout.filters) = Len(pin.kwargs)
        /\ \A i \in 1..Len(pin.kwargs) : pout.filters[i] = Predicate(pin.kwargs[i])

\* C6 witness: a column named a__b compared, then a between
C6_Witness ==
    /\ Parsed
    /\ OnlyBareAndPlainKeys
    /\ Len(pin.kwargs) = 2
    /\ pin.kwargs[1].k = KeyOf(ColAB, <<"gt">>)
    /\ pin.kwargs[2].k = KeyOf(ColA, <<"between">>)
    /\ Len(pout.filters) = 2

---------------------------------------------------------------------------
(* Claims about the sort normalizer, checked under SpecSort *)

SortApplied == pin.fn = "apply_sorting" /\ ~IsPending(pout)

\* an argument counts as given when it is neither None nor empty
Given(x) == x # None /\ (IF x.t = "str" THEN x.w # <<>> ELSE x.l # <<>>)

LengthOf(x) == IF x.t = "str" THEN 1 ELSE Len(x.l)

\* C9: orders given without columns fail with the orders-without-columns error,
\* columns and orders of different lengths (a single name or direction counting
\* as a list of one) fail with ColumnSortError; either way the statement gets no
\* ordering clause and no column has been resolved when the error is raised.
C9_SortErrorsBeforeResolution ==
    SortApplied =>
        /\ (Given(pin.sort_orders) /\ ~Given(pin.sort_columns)) =>
               (pout.err = ValueError /\ pout.stmt = pin.stmt /\ pout.resolved = <<>>)
        /\ (/\ Given(pin.sort_orders)
            /\ Given(pin.sort_columns)
            /\ LengthOf(pin.sort_columns) # LengthOf(pin.sort_orders)) =>
               (pout.err = ColumnSortError /\ pout.stmt = pin.stmt /\ pout.resolved = <<>>)

\* C9 witness: two names, the first of them no column, and a single direction
C9_Witness ==
    /\ SortApplied
    /\ pin.sort_columns = List(<<NoColumn, ColA>>)
    /\ pin.sort_orders = Str(Asc)
    /\ pout.err = ColumnSortError

---------------------------------------------------------------------------
(* Claims about the CRUD facade, checked under Spec *)

Done(c) == call[c].pc = "done"
ByFilter(c) == call[c].pc # "idle" /\ call[c].op \in {"update_model_by_column", "delete_model_by_column"}

\* C1: a by-filter update or delete with allow_multiple false whose guard
\* counts more than one row fails with MultipleResultsError having executed
\* nothing but the count and no commit; unless another caller wrote meanwhile,
\* the table is as it was when the call started.
C1_GuardFailsBeforeMutation ==
    \A c \in Callers :
        (/\ ByFilter(c)
         /\ "count" \in { call[c].log[j] : j \in 1..Len(call[c].log) }
         /\ ~call[c].allow_multiple
         /\ call[c].total_count > 1) =>
            /\ Done(c)
            /\ call[c].err = MultipleResultsError
            /\ call[c].log = <<"count">>
            /\ call[c].mutated = 0
            /\ ~call[c].interleaved => call[c].rows_end = call[c].rows0

\* C1 witness: a logical delete refused on two matching rows
C1_Witness ==
    \E c \in Callers :
        /\ Done(c)
        /\ call[c].op = "delete_model_by_column"
        /\ call[c].err = MultipleResultsError
        /\ call[c].total_count = 2
        /\ ~call[c].interleaved
        /\ rows = call[c].rows0

\* C7: delete_model_by_column returns the count taken by its guard, with and
\* without logical deletion and whatever rowcount the storage reports;
\* update_model_by_column and delete_model return the reported rowcount.
C7_ReturnValues ==
    \A c \in Callers :
        (Done(c) /\ call[c].err = NoErr) =>
            /\ call[c].op = "delete_model_by_column" => call[c].ret = call[c].total_count
            /\ call[c].op \in {"update_model_by_column", "delete_model"} =>
                   call[c].ret = call[c].rowcount

\* C7 witness: a logical delete-by-filter returned its count of 2 although the
\* storage reported another rowcount
C7_Witness ==
    \E c \in Callers :
        /\ Done(c)
        /\ call[c].err = NoErr
        /\ call[c].op = "delete_model_by_column"
        /\ call[c].logical_deletion
        /\ call[c].total_count = 2
        /\ call[c].rowcount # call[c].total_count
        /\ call[c].ret = 2

\* C8: a logical delete-by-filter that passes its guard and runs with no other
\* caller writing in between sets the flag column on every row that matched
\* when the call started, removes no row, leaves the other rows as they were,
\* and returns the number of rows that matched when the call started.
C8_LogicalDeletion ==
    \A c \in Callers :
        (/\ Done(c)
         /\ call[c].op = "delete_model_by_column"
         /\ call[c].logical_deletion
         /\ call[c].err = NoErr
         /\ ~call[c].interleaved) =>
            LET matched == Matching(call[c].filters, call[c].rows0)
            IN  /\ \A i \in RowIds :
                       /\ call[c].rows_end[i].present = call[c].rows0[i].present
                       /\ i \in matched =>
                              call[c].rows_end[i] = [call[c].rows0[i] EXCEPT !.del_flag = TRUE]
                       /\ i \notin matched => call[c].rows_end[i] = call[c].rows0[i]
                /\ call[c].ret = Cardinality(matched)

\* C8 witness: two of the rows flagged by one call, allow_multiple being true
C8_Witness ==
    \E c \in Callers :
        /\ Done(c)
        /\ call[c].op = "delete_model_by_column"
        /\ call[c].logical_deletion
        /\ call[c].err = NoErr
        /\ ~call[c].interleaved
        /\ call[c].ret = 2
        /\ \A i \in RowIds : call[c].rows_end[i].present /\ call[c].rows_end[i].del_flag

\* C10: a by-filter call with allow_multiple false changes more than one row
\* only when its guard counted at most one and another caller changed the table
\* between that count and the call's own statement; nothing stops that.
C10_MultiRowMutationOnlyByRace ==
    \A c \in Callers :
        (ByFilter(c) /\ ~call[c].allow_multiple /\ call[c].mutated > 1) =>
            (call[c].total_count <= 1 /\ call[c].raced)

\* C10 witness: allow_multiple false, one row counted, two rows changed
C10_Witness ==
    \E c \in Callers :
        /\ ByFilter(c)
        /\ ~call[c].allow_multiple
        /\ call[c].total_count <= 1
        /\ call[c].mutated > 1

\* the storage calls of one by-filter call, in the order the code awaits them
StepOrder == <<"count", "execute", "commit">>
IsPrefixOf(s, t) == Len(s) <= Len(t) /\ \A j \in 1..Len(s) : s[j] = t[j]
Steps(c) == { call[c].log[j] : j \in 1..Len(call[c].log) }
CompileFailed(c) == parse_filters(call[c].kwargs).err # NoErr

\* C11: within one call of update_model_by_column or delete_model_by_column
\* the storage calls issued so far are an initial part of count, execute,
\* commit, each at most once: the count only after the filters compiled, the
\* statement only after the count, the commit only with the commit flag and
\* only after the statement; a call whose filters do not compile issues no
\* storage call, a call without the commit flag never commits, and a call
\* that returns normally has executed its statement and, with the flag,
\* committed.
C11_StepsInOrder ==
    \A c \in Callers :
        ByFilter(c) =>
            /\ IsPrefixOf(call[c].log, StepOrder)
            /\ call[c].log # <<>> => ~CompileFailed(c)
            /\ CompileFailed(c) => (Done(c) /\ call[c].err = parse_filters(call[c].kwargs).err)
            /\ "commit" \in Steps(c) => call[c].commit
            /\ ~call[c].commit => "commit" \notin Steps(c)
            /\ (Done(c) /\ call[c].err = NoErr) =>
                   call[c].log = IF call[c].commit THEN StepOrder
                                 ELSE <<"count", "execute">>

\* C11 witness: one call counted, executed and committed, and returned; the
\* other call failed to compile its filters and issued nothing
C11_Witness ==
    \E c, d \in Callers :
        /\ ByFilter(c) /\ Done(c) /\ call[c].commit
        /\ call[c].log = StepOrder
        /\ ByFilter(d) /\ Done(d) /\ call[d].commit
        /\ CompileFailed(d)
        /\ call[d].log = <<>>

=============================================================================
